---- MODULE Spec2Model ----
(***************************************************************************)
(* The Streamlit syllabus-management client (syllabus_management_app.py):  *)
(* seven client operations, each one HTTP request and one envelope unwrap, *)
(* and main(), the script Streamlit re-runs on every widget interaction.   *)
(*                                                                         *)
(* Python values are tagged records [k, v]; a string is a sequence of      *)
(* chunks (a literal is one chunk, "" is <<>>), so f-strings are \o.       *)
(* A JSON text is a sequence of tokens; json.dumps / json.loads are the    *)
(* operators dumps / loads below.                                          *)
(***************************************************************************)
EXTENDS Integers, Sequences, FiniteSets, TLC

\* ------------------------------------------------------------------ bounds
\* Chapter ids the server's data and the forms draw from: IdStep * (0..MaxChapterIx).
MaxChapterIx == 2
IdStep == 7
\* Records a stub-server run upserts.
MaxGiven == 2

\* --------------------------------------------------------- Python values
PyNone == [k |-> "none"]
PyBool(b) == [k |-> "bool", v |-> b]
PyInt(n) == [k |-> "int", v |-> n]
PyStr(s) == [k |-> "str", v |-> s]
PyList(l) == [k |-> "list", v |-> l]
\* A dict is its items in insertion order: << <<key, value>>, ... >>.
PyDict(items) == [k |-> "dict", v |-> items]
\* A tuple (the return value of an operation).
PyTuple(l) == [k |-> "tuple", v |-> l]

\* A string literal.
S(lit) == <<lit>>
Lit(lit) == PyStr(S(lit))
Empty == PyStr(<<>>)

\* bool(x)
Truthy(x) ==
  CASE x.k = "none" -> FALSE
    [] x.k = "bool" -> x.v
    [] x.k = "int" -> x.v # 0
    [] OTHER -> Len(x.v) > 0

HasKey(d, key) == \E i \in 1..Len(d.v) : d.v[i][1] = key
Lookup(d, key) == d.v[CHOOSE i \in 1..Len(d.v) : d.v[i][1] = key][2]

\* The outcome of evaluating an expression: a value, or a raised exception with
\* its str(e).
Val(x) == [exc |-> FALSE, val |-> x]
Raise(text) == [exc |-> TRUE, val |-> PyStr(text)]

\* d.get(key, default): AttributeError when d is no dict.
Get(d, key, default) ==
  IF d.k # "dict" THEN Raise(S("object has no attribute 'get'"))
  ELSE IF HasKey(d, key) THEN Val(Lookup(d, key)) ELSE Val(default)

\* d[key]: KeyError on a dict without the key, TypeError on None, a number or
\* a list or string indexed by a string.
Index(d, key) ==
  IF d.k = "dict"
  THEN IF HasKey(d, key) THEN Val(Lookup(d, key)) ELSE Raise(<<"'", key, "'">>)
  ELSE Raise(S("object is not subscriptable by str"))

\* str(x) for the values an f-string interpolates.
RECURSIVE FormatInt(_)
FormatInt(n) ==
  LET digit(d) == <<"0", "1", "2", "3", "4", "5", "6", "7", "8", "9">>[d + 1]
  IN IF n < 10 THEN <<digit(n)>> ELSE FormatInt(n \div 10) \o <<digit(n % 10)>>

Format(x) ==
  CASE x.k = "str" -> x.v
    [] x.k = "int" -> FormatInt(x.v)
    [] x.k = "none" -> S("None")
    [] x.k = "bool" -> IF x.v THEN S("True") ELSE S("False")
    [] OTHER -> S("<object>")

\* ------------------------------------------------------------------ JSON
Tok(kind, v) == [k |-> kind, v |-> v]
P(c) == Tok("p", c)

RECURSIVE dumps(_)
RECURSIVE DumpItems(_)
RECURSIVE DumpMembers(_)
\* json.dumps, as requests does for json=...: None -> null, a dict keeps its
\* insertion order, a list its order.
dumps(x) ==
  CASE x.k = "none" -> <<P("null")>>
    [] x.k = "bool" -> <<P(IF x.v THEN "true" ELSE "false")>>
    [] x.k = "int" -> <<Tok("n", x.v)>>
    [] x.k = "str" -> <<Tok("s", x.v)>>
    [] x.k = "dict" -> <<P("{")>> \o DumpMembers(x.v) \o <<P("}")>>
    [] OTHER -> <<P("[")>> \o DumpItems(x.v) \o <<P("]")>>
DumpItems(l) ==
  IF l = <<>> THEN <<>>
  ELSE dumps(Head(l)) \o (IF Len(l) > 1 THEN <<P(",")>> ELSE <<>>) \o DumpItems(Tail(l))
DumpMembers(l) ==
  IF l = <<>> THEN <<>>
  ELSE <<Tok("s", S(Head(l)[1])), P(":")>> \o dumps(Head(l)[2])
       \o (IF Len(l) > 1 THEN <<P(",")>> ELSE <<>>) \o DumpMembers(Tail(l))

\* A parse: the value and the tokens left, or a failure.
Parsed(x, rest) == [ok |-> TRUE, val |-> x, rest |-> rest]
NoParse == [ok |-> FALSE, val |-> PyNone, rest |-> <<>>]
IsP(ts, c) == ts # <<>> /\ Head(ts).k = "p" /\ Head(ts).v = c

RECURSIVE ParseValue(_)
RECURSIVE ParseItems(_, _)
RECURSIVE ParseMembers(_, _)
ParseValue(ts) ==
  IF ts = <<>> THEN NoParse
  ELSE LET t == Head(ts) IN
    CASE t.k = "s" -> Parsed(PyStr(t.v), Tail(ts))
      [] t.k = "n" -> Parsed(PyInt(t.v), Tail(ts))
      [] t.k = "p" /\ t.v = "null" -> Parsed(PyNone, Tail(ts))
      [] t.k = "p" /\ t.v = "true" -> Parsed(PyBool(TRUE), Tail(ts))
      [] t.k = "p" /\ t.v = "false" -> Parsed(PyBool(FALSE), Tail(ts))
      [] t.k = "p" /\ t.v = "[" ->
           IF IsP(Tail(ts), "]") THEN Parsed(PyList(<<>>), Tail(Tail(ts)))
           ELSE ParseItems(Tail(ts), <<>>)
      [] t.k = "p" /\ t.v = "{" ->
           IF IsP(Tail(ts), "}") THEN Parsed(PyDict(<<>>), Tail(Tail(ts)))
           ELSE ParseMembers(Tail(ts), <<>>)
      [] OTHER -> NoParse
ParseItems(ts, acc) ==
  LET item == ParseValue(ts) IN
    IF ~item.ok THEN NoParse
    ELSE IF IsP(item.rest, ",") THEN ParseItems(Tail(item.rest), Append(acc, item.val))
    ELSE IF IsP(item.rest, "]") THEN Parsed(PyList(Append(acc, item.val)), Tail(item.rest))
    ELSE NoParse
\* A repeated key keeps its first place and takes the last value, as a Python
\* dict does.
PutItem(items, key, x) ==
  IF \E i \in 1..Len(items) : items[i][1] = key
  THEN [i \in 1..Len(items) |-> IF items[i][1] = key THEN <<key, x>> ELSE items[i]]
  ELSE Append(items, <<key, x>>)
ParseMembers(ts, acc) ==
  IF ts = <<>> \/ Head(ts).k # "s" \/ Len(Head(ts).v) # 1 \/ ~IsP(Tail(ts), ":") THEN NoParse
  ELSE LET key == Head(ts).v[1]
           item == ParseValue(Tail(Tail(ts)))
       IN IF ~item.ok THEN NoParse
          ELSE IF IsP(item.rest, ",")
               THEN ParseMembers(Tail(item.rest), PutItem(acc, key, item.val))
          ELSE IF IsP(item.rest, "}")
               THEN Parsed(PyDict(PutItem(acc, key, item.val)), Tail(item.rest))
          ELSE NoParse

\* json.loads / response.json(): the value, or a JSONDecodeError.
loads(text) ==
  LET p == ParseValue(text) IN
    IF p.ok /\ p.rest = <<>> THEN Val(p.val)
    ELSE Raise(S("Expecting value: line 1 column 1 (char 0)"))

\* --------------------------------------------------------- HTTP transport
API_BASE_URL == S("https://api.nlpbusiness.site")
LoginTimeout == 10

\* What requests.post / get / put is given. json = <<>>: no body; auth = PyNone:
\* no Authorization header; timeout = PyNone: requests waits without limit.
Request(op, method, url, auth, json, timeout) ==
  [op |-> op, method |-> method, url |-> url, auth |-> auth, json |-> json,
   timeout |-> timeout]
NoRequest == Request("none", "", <<>>, PyNone, <<>>, PyNone)

\* The Authorization header carrying the token without its scheme.
Bearerless(token) == token

Bearer(token) == PyStr(S("Bearer ") \o Format(token))

\* What the call yields: an HTTP response, or an exception requests raises
\* (ConnectionError, a Timeout when the request carries one).
Http(status, text) == [kind |-> "http", status |-> status, text |-> text, error |-> <<>>]
ConnectionError ==
  [kind |-> "error", status |-> 0, text |-> <<>>, error |-> S("Connection refused")]
TimeoutError ==
  [kind |-> "timeout", status |-> 0, text |-> <<>>, error |-> S("Read timed out.")]
NoResponse == [kind |-> "none", status |-> 0, text |-> <<>>, error |-> <<>>]

\* An operation's outcome: it returned ret after showing the st.error messages
\* errors, or an exception left it.
Returned(ret, errors) == [escaped |-> FALSE, ret |-> ret, errors |-> errors]
Escaped(e) == [escaped |-> TRUE, ret |-> e, errors |-> <<>>]
NoOutcome == Returned(PyNone, <<>>)

\* The try-block of an operation ends in a return (with the st.error calls made
\* on the way) or in an exception.
Return(x, errors) == [exc |-> FALSE, val |-> x, errors |-> errors]
Throw(e) == [exc |-> TRUE, val |-> e.val, errors |-> <<>>]

\* response = requests.<method>(...): raises on a transport failure.
Transport(resp) == IF resp.kind = "http" THEN Val(PyNone) ELSE Raise(resp.error)

\* data = response.json(); data.get("succeeded")
Succeeded(resp) ==
  LET data == loads(resp.text) IN
    IF data.exc THEN data ELSE Get(data.val, "succeeded", PyNone)

NoSession == PyTuple(<<PyNone, PyNone, PyNone>>)

\* login_user: the request (lines 63-71)
login_user_request(email, password) ==
  Request("login_user", "POST", API_BASE_URL \o S("/api/login"), PyNone,
          dumps(PyDict(<< <<"email", email>>, <<"password", password>> >>)),
          PyInt(LoginTimeout))

\* login_user: the try block after the request (lines 73-85)
login_user_try(resp) ==
  IF Transport(resp).exc THEN Throw(Transport(resp))
  ELSE IF resp.status = 200
  THEN LET data == loads(resp.text).val
           ok == Succeeded(resp)
       IN IF ok.exc THEN Throw(ok)
          ELSE IF Truthy(ok.val)
          THEN LET d == Index(data, "data") IN
               IF d.exc THEN Throw(d)
               ELSE LET t == Index(d.val, "token")
                        u == Index(d.val, "username")
                        r == Index(d.val, "user_role")
                    IN IF t.exc THEN Throw(t)
                       ELSE IF u.exc THEN Throw(u)
                       ELSE IF r.exc THEN Throw(r)
                       ELSE Return(PyTuple(<<t.val, u.val, r.val>>), <<>>)
          ELSE Return(NoSession,
                 <<S("Login failed: ")
                   \o Format(Get(data, "message", Lit("Unknown error")).val)>>)
  ELSE Return(NoSession, <<S("Login failed with status ") \o FormatInt(resp.status)>>)

\* login_user returning data["data"]["user_role"] in the username's place.
login_user_swapped(resp) ==
  LET b == login_user_try(resp) IN
    IF b.exc THEN Returned(NoSession, <<S("Login error: ") \o b.val.v>>)
    ELSE IF b.val = NoSession THEN Returned(b.val, b.errors)
    ELSE Returned(PyTuple(<<b.val.v[1], b.val.v[3], b.val.v[2]>>), b.errors)

\* login_user without its except clause.
login_user_uncaught(resp) ==
  LET b == login_user_try(resp) IN
    IF b.exc THEN Escaped(PyStr(b.val.v)) ELSE Returned(b.val, b.errors)

\* login_user (lines 59-89)
login_user(resp) ==
  LET b == login_user_try(resp) IN
    IF b.exc THEN Returned(NoSession, <<S("Login error: ") \o b.val.v>>)
    ELSE Returned(b.val, b.errors)

\* The shape get_all_chapters, get_chapter_details and get_mcqs_for_chapter
\* share: return data["data"] on HTTP 200 with a truthy succeeded, else fall
\* through to the failure value.
fetch_try(resp, failure) ==
  IF Transport(resp).exc THEN Throw(Transport(resp))
  ELSE IF resp.status = 200
  THEN LET ok == Succeeded(resp) IN
       IF ok.exc THEN Throw(ok)
       ELSE IF Truthy(ok.val)
       THEN LET d == Index(loads(resp.text).val, "data") IN
            IF d.exc THEN Throw(d) ELSE Return(d.val, <<>>)
       ELSE Return(failure, <<>>)
  ELSE Return(failure, <<>>)

\* get_all_chapters with get_chapter_details' failure value.
get_all_chapters_none(resp) ==
  LET b == fetch_try(resp, PyNone) IN
    IF b.exc THEN Returned(PyNone, <<S("Error fetching chapters: ") \o b.val.v>>)
    ELSE Returned(b.val, b.errors)

get_all_chapters_request(token) ==
  Request("get_all_chapters", "GET", API_BASE_URL \o S("/api/all-chapters"),
          Bearer(token), <<>>, PyNone)

\* get_all_chapters (lines 91-103)
get_all_chapters(resp) ==
  LET b == fetch_try(resp, PyList(<<>>)) IN
    IF b.exc THEN Returned(PyList(<<>>), <<S("Error fetching chapters: ") \o b.val.v>>)
    ELSE Returned(b.val, b.errors)

\* get_chapter_details returning data["data"] without looking at succeeded.
get_chapter_details_unchecked(resp) ==
  LET data == loads(resp.text) IN
    IF resp.kind = "http" /\ resp.status = 200 /\ ~data.exc /\ data.val.k = "dict"
       /\ HasKey(data.val, "data")
    THEN Returned(Lookup(data.val, "data"), <<>>)
    ELSE Returned(PyNone, <<>>)

get_chapter_details_request(chapter_id, token) ==
  Request("get_chapter_details", "GET",
          API_BASE_URL \o S("/api/syllabus/") \o Format(chapter_id),
          Bearer(token), <<>>, PyNone)

\* get_chapter_details (lines 105-117)
get_chapter_details(resp) ==
  LET b == fetch_try(resp, PyNone) IN
    IF b.exc THEN Returned(PyNone, <<S("Error fetching chapter details: ") \o b.val.v>>)
    ELSE Returned(b.val, b.errors)

get_mcqs_for_chapter_request(chapter_id, token) ==
  Request("get_mcqs_for_chapter", "GET",
          API_BASE_URL \o S("/api/mcqs/") \o Format(chapter_id),
          Bearer(token), <<>>, PyNone)

\* get_mcqs_for_chapter (lines 133-152)
get_mcqs_for_chapter(resp) ==
  LET b == fetch_try(resp, PyList(<<>>)) IN
    IF b.exc THEN Returned(PyList(<<>>), <<S("Error fetching MCQs: ") \o b.val.v>>)
    ELSE Returned(b.val, b.errors)

Result(flag, message) == PyTuple(<<PyBool(flag), PyStr(message)>>)

\* update_chapter_request addressing the chapter after the one it was given.
update_chapter_request_next(chapter_id, chapter_data, token) ==
  Request("update_chapter", "PUT",
          API_BASE_URL \o S("/api/syllabus/") \o FormatInt(chapter_id.v + 1),
          Bearer(token), dumps(chapter_data), PyNone)

\* update_chapter_request leaving the payload's last field out.
update_chapter_request_partial(chapter_id, chapter_data, token) ==
  Request("update_chapter", "PUT",
          API_BASE_URL \o S("/api/syllabus/") \o Format(chapter_id),
          Bearer(token),
          dumps(PyDict(SubSeq(chapter_data.v, 1, Len(chapter_data.v) - 1))), PyNone)

update_chapter_request(chapter_id, chapter_data, token) ==
  Request("update_chapter", "PUT",
          API_BASE_URL \o S("/api/syllabus/") \o Format(chapter_id),
          Bearer(token), dumps(chapter_data), PyNone)

\* update_chapter: the try block after the request (lines 125-129)
update_chapter_try(resp) ==
  IF Transport(resp).exc THEN Throw(Transport(resp))
  ELSE IF resp.status \in {200, 201}
  THEN LET ok == Succeeded(resp) IN
       IF ok.exc THEN Throw(ok)
       ELSE IF Truthy(ok.val)
       THEN LET m == Index(loads(resp.text).val, "message") IN
            IF m.exc THEN Throw(m)
            ELSE Return(PyTuple(<<PyBool(TRUE), m.val>>), <<>>)
       ELSE Return(Result(FALSE, S("Update failed")), <<>>)
  ELSE Return(Result(FALSE, S("Update failed")), <<>>)

\* update_chapter without its except clause.
update_chapter_uncaught(resp) ==
  LET b == update_chapter_try(resp) IN
    IF b.exc THEN Escaped(PyStr(b.val.v)) ELSE Returned(b.val, b.errors)

\* update_chapter testing status_code == 200 alone.
update_chapter_only_200(resp) ==
  LET b == update_chapter_try(IF resp.status = 201 THEN [resp EXCEPT !.status = 404]
                              ELSE resp)
  IN IF b.exc THEN Returned(Result(FALSE, S("Error: ") \o b.val.v), <<>>)
     ELSE Returned(b.val, b.errors)

\* update_chapter (lines 119-131)
update_chapter(resp) ==
  LET b == update_chapter_try(resp) IN
    IF b.exc THEN Returned(Result(FALSE, S("Error: ") \o b.val.v), <<>>)
    ELSE Returned(b.val, b.errors)

\* The shape create_test_mcqs and update_mcq share after the request: success
\* on HTTP 200 with a truthy succeeded; neither data nor message is read.
put_mcqs_try(resp, success, failure) ==
  IF Transport(resp).exc THEN Throw(Transport(resp))
  ELSE IF resp.status = 200
  THEN LET ok == Succeeded(resp) IN
       IF ok.exc THEN Throw(ok)
       ELSE IF Truthy(ok.val) THEN Return(Result(TRUE, success), <<>>)
       ELSE Return(Result(FALSE, failure), <<>>)
  ELSE Return(Result(FALSE, failure), <<>>)

\* create_test_mcqs: the sample records (lines 160-183)
test_mcqs(chapter_id) ==
  PyList(<<
    PyDict(<<
      <<"question", PyStr(S("What is the main topic of Chapter ") \o Format(chapter_id) \o S("?"))>>,
      <<"options", PyList(<<Lit("Introduction to the subject"), Lit("Advanced concepts"),
                            Lit("Practical applications"), Lit("Summary and conclusion")>>)>>,
      <<"correct_answer", Lit("Introduction to the subject")>>,
      <<"explanation", Lit("This is a test MCQ created for demonstration purposes.")>> >>),
    PyDict(<<
      <<"question", PyStr(S("Which of the following is most important in Chapter ")
                          \o Format(chapter_id) \o S("?"))>>,
      <<"options", PyList(<<Lit("Understanding the basics"), Lit("Memorizing facts"),
                            Lit("Speed reading"), Lit("Taking notes")>>)>>,
      <<"correct_answer", Lit("Understanding the basics")>>,
      <<"explanation",
        Lit("Understanding the basics is fundamental to learning any new concept.")>> >>) >>)

create_test_mcqs_request(chapter_id, token) ==
  Request("create_test_mcqs", "PUT",
          API_BASE_URL \o S("/api/mcqs/") \o Format(chapter_id),
          Bearer(token), dumps(test_mcqs(chapter_id)), PyNone)

\* create_test_mcqs (lines 154-198)
create_test_mcqs(resp) ==
  LET b == put_mcqs_try(resp,
             S("Created ") \o FormatInt(Len(test_mcqs(PyInt(0)).v)) \o S(" test MCQs successfully!"),
             S("Failed to create test MCQs"))
  IN IF b.exc THEN Returned(Result(FALSE, S("Error creating test MCQs: ") \o b.val.v), <<>>)
     ELSE Returned(b.val, b.errors)

\* update_data sending the record as the form built it, without the id.
update_data_without_id(mcq_id, mcq_data) == Val(PyList(<<mcq_data>>))

\* update_mcq: the one-record list it PUTs (lines 205-211)
update_data(mcq_id, mcq_data) ==
  LET q == Index(mcq_data, "question")
      o == Index(mcq_data, "options")
      c == Index(mcq_data, "correct_answer")
      e == Get(mcq_data, "explanation", Empty)
  IN IF q.exc THEN q ELSE IF o.exc THEN o ELSE IF c.exc THEN c ELSE IF e.exc THEN e
     ELSE Val(PyList(<<PyDict(<< <<"id", mcq_id>>, <<"question", q.val>>,
                                 <<"options", o.val>>, <<"correct_answer", c.val>>,
                                 <<"explanation", e.val>> >>)>>))

update_mcq_request(mcq_id, chapter_id, mcq_data, token) ==
  Request("update_mcq", "PUT",
          API_BASE_URL \o S("/api/mcqs/") \o Format(chapter_id),
          Bearer(token), dumps(update_data(mcq_id, mcq_data).val), PyNone)

\* update_mcq (lines 200-227)
update_mcq(resp) ==
  LET b == put_mcqs_try(resp, S("MCQ updated successfully!"), S("Failed to update MCQ"))
  IN IF b.exc THEN Returned(Result(FALSE, S("Error updating MCQ: ") \o b.val.v), <<>>)
     ELSE Returned(b.val, b.errors)

\* What operation op makes of response resp.
Handle(op, resp) ==
  CASE op = "login_user" -> login_user(resp)
    [] op = "get_all_chapters" -> get_all_chapters(resp)
    [] op = "get_chapter_details" -> get_chapter_details(resp)
    [] op = "update_chapter" -> update_chapter(resp)
    [] op = "get_mcqs_for_chapter" -> get_mcqs_for_chapter(resp)
    [] op = "create_test_mcqs" -> create_test_mcqs(resp)
    [] OTHER -> update_mcq(resp)

\* ------------------------------------------------ what a server may answer
\* A key the envelope or a record leaves out.
Absent == [k |-> "absent"]
Items(pairs) == SelectSeq(pairs, LAMBDA it : it[2] # Absent)
Envelope(succeeded, message, data) ==
  PyDict(Items(<< <<"succeeded", succeeded>>, <<"message", message>>, <<"data", data>> >>))

\* A body that is no JSON.
Garbage == <<P("<html>")>>

\* The bodies over the payloads D: every envelope with succeeded true, false or
\* missing, with and without message, with a payload of D or without data; a
\* JSON text that is no object; a body that is no JSON.
Bodies(D) ==
  { dumps(Envelope(s, m, d)) :
      s \in {Absent, PyBool(TRUE), PyBool(FALSE)}, m \in {Absent, Lit("m")},
      d \in D \cup {Absent} }
  \cup {Garbage, dumps(PyList(<<>>))}

Responses(D) ==
  { Http(st, b) : st \in {200, 201}, b \in Bodies(D) }
  \cup { Http(st, b) : st \in {401, 403, 404},
         b \in {Garbage, dumps(Envelope(PyBool(FALSE), Lit("m"), Absent))} }
  \cup {ConnectionError}

SessionData(t, u, r) ==
  PyDict(Items(<< <<"token", t>>, <<"username", u>>, <<"user_role", r>> >>))
LoginData ==
  { SessionData(t, Lit("A"), Lit("Admin")) : t \in {Lit("T"), Empty, PyNone} }
  \cup {SessionData(Lit("T"), Lit("A"), Absent), PyNone}

ChapterIds == { IdStep * i : i \in 0..MaxChapterIx }
ChapterRow(id) ==
  PyDict(<< <<"chapter_id", PyInt(id)>>, <<"chapter_title", Lit("t")>>,
            <<"created_at", Lit("2024-01-01T00:00:00")>> >>)
\* The chapter lists a server returns: the stretches of its chapters, newest first.
AllIds == [i \in 1..(MaxChapterIx + 1) |-> IdStep * (MaxChapterIx + 1 - i)]
IdLists == { SubSeq(AllIds, i, j) : i \in 1..(MaxChapterIx + 2), j \in 0..(MaxChapterIx + 1) }
ChapterLists == { PyList([i \in 1..Len(q) |-> ChapterRow(q[i])]) : q \in IdLists }

Chapter(title, things) ==
  PyDict(<< <<"chapter_title", title>>, <<"summary", Lit("s")>>,
            <<"important_things", PyList(things)>>, <<"key_learnings", PyList(<<>>)>>,
            <<"exercises_activities", PyList(<<>>)>>, <<"quotes", PyList(<<>>)>>,
            <<"chapter_text", Lit("x")>> >>)
ChapterData == {Chapter(Lit("t"), <<Lit("a"), Lit("b")>>), PyDict(<<>>), PyNone}

Mcq(id, question, options, correct, explanation) ==
  PyDict(Items(<< <<"id", id>>, <<"question", question>>, <<"options", PyList(options)>>,
                  <<"correct_answer", correct>>, <<"explanation", explanation>> >>))
Mcq1 == Mcq(PyInt(5), Lit("q1"), <<Lit("a"), Lit("b")>>, Lit("b"), Lit("e"))
Mcq2 == Mcq(Absent, Lit("q2"), <<Lit("a"), Lit("b")>>, Lit("z"), Absent)
Mcq3 == Mcq(PyInt(6), Lit("q3"), <<>>, Lit("a"), Absent)
McqLists == {PyList(<<>>), PyList(<<Mcq1>>), PyList(<<Mcq2, Mcq1>>), PyList(<<Mcq3>>)}

LoginResponses == Responses(LoginData)
ChapterListResponses == Responses(ChapterLists)
ChapterResponses == Responses(ChapterData)
McqListResponses == Responses(McqLists)
UpdateResponses == Responses({})

ResponsesFor(op) ==
  CASE op = "login_user" -> LoginResponses
    [] op \in {"get_all_chapters"} -> ChapterListResponses
    [] op = "get_chapter_details" -> ChapterResponses
    [] op = "get_mcqs_for_chapter" -> McqListResponses
    [] OTHER -> UpdateResponses

\* ------------------------------------------------------------- form input
IsSpace(c) == c \in {" ", "\t"}
RECURSIVE LStrip(_)
LStrip(s) == IF s # <<>> /\ IsSpace(Head(s)) THEN LStrip(Tail(s)) ELSE s
RECURSIVE RStrip(_)
RStrip(s) ==
  IF s # <<>> /\ IsSpace(s[Len(s)]) THEN RStrip(SubSeq(s, 1, Len(s) - 1)) ELSE s
\* str.strip()
Strip(s) == RStrip(LStrip(s))

\* A text area's text is its lines, text.split('\n').
\* text_to_list (lines 397-398, 490-491)
text_to_list(text) ==
  LET kept == SelectSeq(text, LAMBDA line : Strip(line) # <<>>)
  IN PyList([i \in 1..Len(kept) |-> PyStr(Strip(kept[i]))])

\* '\n'.join(list), as lines: the text area's initial value.
Join(l) == IF Len(l.v) = 0 THEN << <<>> >> ELSE [i \in 1..Len(l.v) |-> l.v[i].v]

\* What the user may have typed into a text area that showed `initial`.
Typed(initial) == {initial, << <<" ", "c", " ">>, <<" ">>, <<"d">> >>}
\* ... and into a text input.
TypedLine(initial) == {initial, Empty}

\* chapter_data as both chapter forms build it (lines 403-411, 497-505)
chapter_data(title, summary, things, learnings, exercises, quotes, text) ==
  PyDict(<< <<"chapter_title", title>>, <<"summary", summary>>,
            <<"important_things", text_to_list(things)>>,
            <<"key_learnings", text_to_list(learnings)>>,
            <<"exercises_activities", text_to_list(exercises)>>,
            <<"quotes", text_to_list(quotes)>>, <<"chapter_text", text>> >>)

\* ------------------------------------------------------------------ state
VARIABLES
  token, username, user_role,  \* st.session_state
  pc,               \* where the script run stands: "idle" between runs, else a place in main()
  inflight,         \* the request of `req` is out and not answered
  ev,               \* the widget interaction that started this run: <<widget, key>>
  forms,            \* the widgets the last run (or this run, so far) rendered
  chapters, selected, chapter_details, mcqs, direct_token,   \* main()'s locals
  req, resp, result,  \* the last client call: its request, the answer, the outcome
  nreq,             \* HTTP requests the last client call has issued
  store,            \* stub server: the PUT bodies it keeps, << <<url, body>>, ... >>
  sent,             \* stub server: the PUTs to /api/mcqs it received, in order
  given,            \* stub run: the MCQ records to upsert, in order
  arg,              \* stub run: <<chapter id, payload>> of the call under way
  upserted          \* stub run: << <<chapter id, payload>>, ... >> update_chapter reported stored

vars == <<token, username, user_role, pc, inflight, ev, forms, chapters, selected,
          chapter_details, mcqs, direct_token, req, resp, result, nreq, store, sent, given, arg,
          upserted>>

session == <<token, username, user_role>>
locals == <<chapters, selected, chapter_details, mcqs, direct_token>>
call == <<req, resp, result, nreq, inflight>>
stub == <<store, sent, given, arg, upserted>>

NoEvent == <<"none", 0>>

\* A client function is entered: its request goes out.
Call(r, site) ==
  /\ req' = r
  /\ resp' = NoResponse
  /\ result' = NoOutcome
  /\ nreq' = 1
  /\ inflight' = TRUE
  /\ pc' = site

\* st.rerun(): the run is abandoned and the script starts again, no widget fired.
Rerun ==
  /\ pc' = "main"
  /\ ev' = NoEvent
  /\ forms' = {}
  /\ chapters' = PyNone /\ selected' = PyNone /\ chapter_details' = PyNone /\ mcqs' = PyNone
  /\ direct_token' = PyNone

\* The script reached its end (or an exception ended it): main() returns, its
\* locals and the last call's request and outcome are gone, the page waits.
EndRun ==
  /\ pc' = "idle"
  /\ ev' = NoEvent
  /\ chapters' = PyNone /\ selected' = PyNone /\ chapter_details' = PyNone /\ mcqs' = PyNone
  /\ direct_token' = PyNone
  /\ req' = NoRequest /\ resp' = NoResponse /\ result' = NoOutcome /\ nreq' = 0
  /\ inflight' = FALSE

Init ==
  /\ token = PyNone /\ username = PyNone /\ user_role = PyNone
  /\ pc = "main" /\ inflight = FALSE /\ ev = NoEvent /\ forms = {}
  /\ chapters = PyNone /\ selected = PyNone /\ chapter_details = PyNone /\ mcqs = PyNone
  /\ direct_token = PyNone
  /\ req = NoRequest /\ resp = NoResponse /\ result = NoOutcome /\ nreq = 0
  /\ store = <<>> /\ sent = <<>> /\ given = <<>> /\ arg = <<0, PyNone>> /\ upserted = <<>>

\* The user works a widget the page shows (or reloads the page): Streamlit
\* runs the script again.
Interact ==
  /\ pc = "idle"
  /\ \E e \in forms \cup {NoEvent} : ev' = e
  /\ pc' = "main"
  /\ forms' = {}
  /\ UNCHANGED <<session, locals, call, stub>>

\* Logout resetting the token alone.
LogoutTokenOnly ==
  /\ pc = "main" /\ Truthy(token) /\ ev = <<"logout", 0>>
  /\ token' = PyNone
  /\ Rerun
  /\ UNCHANGED <<username, user_role, call, stub>>

\* main, lines 246-254: the sidebar's Logout button.
Logout ==
  /\ pc = "main" /\ Truthy(token) /\ ev = <<"logout", 0>>
  /\ token' = PyNone /\ username' = PyNone /\ user_role' = PyNone
  /\ Rerun
  /\ UNCHANGED <<call, stub>>

\* main, lines 259-269: no token, so the login page; first the direct-token
\* form, whose Access Token input holds what the user typed.
TokenInput ==
  /\ pc = "main" /\ ~Truthy(token)
  /\ pc' = "token_form"
  /\ direct_token' \in {Empty, Lit("D")}
  /\ UNCHANGED <<session, ev, forms, chapters, selected, chapter_details, mcqs, call, stub>>

\* The token form taking whatever was submitted, an empty token too.
TokenFormUnchecked ==
  /\ pc = "token_form"
  /\ IF ev = <<"token_form", 0>>
     THEN /\ token' = direct_token
          /\ username' = Lit("Direct Access")
          /\ user_role' = Lit("Admin")
          /\ Rerun
     ELSE /\ pc' = "login_form"
          /\ forms' = {<<"token_form", 0>>, <<"login_form", 0>>}
          /\ UNCHANGED <<session, ev, locals>>
  /\ UNCHANGED <<call, stub>>

\* main, lines 271-276: a submitted, non-empty token becomes the session.
TokenForm ==
  /\ pc = "token_form"
  /\ IF ev = <<"token_form", 0>> /\ Truthy(direct_token)
     THEN /\ token' = direct_token
          /\ username' = Lit("Direct Access")
          /\ user_role' = Lit("Admin")
          /\ Rerun
     ELSE /\ pc' = "login_form"
          /\ forms' = {<<"token_form", 0>>, <<"login_form", 0>>}
          /\ UNCHANGED <<session, ev, locals>>
  /\ UNCHANGED <<call, stub>>

\* main, lines 280-297: the login form up to the call of login_user.
LoginForm ==
  /\ pc = "login_form"
  /\ \E email \in {Empty, Lit("a@b.com")}, password \in {Empty, Lit("pw")} :
       IF ev = <<"login_form", 0>> /\ Truthy(email) /\ Truthy(password)
       THEN Call(login_user_request(email, password), "login") /\ UNCHANGED <<ev, locals>>
       ELSE EndRun
  /\ UNCHANGED <<session, forms, stub>>

\* Respond with expiry detection: a 401 ends the session.
RespondExpiring ==
  /\ inflight
  /\ \E r \in ResponsesFor(req.op) :
       /\ resp' = r
       /\ result' = Handle(req.op, r)
       /\ IF r.status = 401
          THEN token' = PyNone /\ username' = PyNone /\ user_role' = PyNone
          ELSE UNCHANGED session
  /\ inflight' = FALSE
  /\ UNCHANGED <<pc, ev, forms, locals, req, nreq, stub>>

\* Respond with a retry: a transport failure sends the request again.
RespondRetrying ==
  /\ inflight
  /\ \E r \in ResponsesFor(req.op) :
       IF r.kind = "error"
       THEN nreq' = nreq + 1 /\ UNCHANGED <<resp, result, inflight>>
       ELSE /\ resp' = r
            /\ result' = Handle(req.op, r)
            /\ inflight' = FALSE
            /\ nreq' = nreq
  /\ UNCHANGED <<session, pc, ev, forms, locals, req, stub>>

\* The server answers the request that is out, and the client function runs to
\* its return.
Respond ==
  /\ inflight
  /\ \E r \in ResponsesFor(req.op) :
       /\ resp' = r
       /\ result' = Handle(req.op, r)
  /\ inflight' = FALSE
  /\ UNCHANGED <<session, pc, ev, forms, locals, req, nreq, stub>>

\* requests gives up on a request that carries a timeout.
Timeout ==
  /\ inflight /\ req.timeout # PyNone
  /\ resp' = TimeoutError
  /\ result' = Handle(req.op, TimeoutError)
  /\ inflight' = FALSE
  /\ UNCHANGED <<session, pc, ev, forms, locals, req, nreq, stub>>

\* The login form storing whatever login_user returned, without `if token:`.
LoginReturnUnchecked ==
  /\ pc = "login" /\ ~inflight
  /\ IF ~result.escaped
     THEN /\ token' = result.ret.v[1]
          /\ username' = result.ret.v[2]
          /\ user_role' = result.ret.v[3]
          /\ Rerun /\ UNCHANGED call
     ELSE EndRun /\ UNCHANGED <<session, forms>>
  /\ UNCHANGED stub

\* main, lines 287-295: what the login form does with login_user's result.
LoginReturn ==
  /\ pc = "login" /\ ~inflight
  /\ IF ~result.escaped /\ Truthy(result.ret.v[1])
     THEN /\ token' = result.ret.v[1]
          /\ username' = result.ret.v[2]
          /\ user_role' = result.ret.v[3]
          /\ Rerun /\ UNCHANGED call
     ELSE EndRun /\ UNCHANGED <<session, forms>>
  /\ UNCHANGED stub

\* main, lines 302-308 and 517-521: a tab opens with get_all_chapters.
Tab1 ==
  /\ pc = "main" /\ Truthy(token) /\ ev # <<"logout", 0>>
  /\ forms' = {<<"logout", 0>>}
  /\ Call(get_all_chapters_request(token), "tab1_chapters")
  /\ UNCHANGED <<session, ev, locals, stub>>

Tab2 ==
  /\ Call(get_all_chapters_request(token), "tab2_chapters")
  /\ chapters' = PyNone /\ selected' = PyNone \* both rebound in tab 2 before they are read
  /\ UNCHANGED <<ev, mcqs, direct_token>>

\* chapter_ids = [chapter['chapter_id'] for chapter in chapters]
chapter_ids(list) == { Lookup(list.v[i], "chapter_id") : i \in 1..Len(list.v) }

\* main, lines 310-328 and 422-515: the chapter list arrived; with chapters the
\* selected one is fetched, without any the create form is shown and handled.
Tab1Chapters ==
  /\ pc = "tab1_chapters" /\ ~inflight
  /\ IF result.escaped THEN EndRun /\ UNCHANGED forms
     ELSE IF Truthy(result.ret)
     THEN \E id \in chapter_ids(result.ret) :
            IF Truthy(id)
            THEN /\ Call(get_chapter_details_request(id, token), "tab1_details")
                 /\ chapters' = result.ret /\ selected' = id
                 /\ UNCHANGED <<ev, forms, chapter_details, mcqs, direct_token>>
            ELSE Tab2 /\ UNCHANGED <<forms, chapter_details>>
     ELSE \E new_chapter_id \in {i \in ChapterIds : i >= 1},
             new_chapter_title \in {Empty, Lit("t")},
             new_important_things \in Typed(<< <<>> >>) :
            /\ forms' = forms \cup {<<"create_chapter", 0>>}
            /\ IF ev = <<"create_chapter", 0>> /\ Truthy(PyInt(new_chapter_id))
                  /\ Truthy(new_chapter_title)
               THEN /\ Call(update_chapter_request(PyInt(new_chapter_id),
                              chapter_data(new_chapter_title, Empty, new_important_things,
                                           << <<>> >>, << <<>> >>, << <<>> >>, Empty),
                              token), "tab1_update")
                    /\ chapters' = result.ret
                    /\ UNCHANGED <<ev, selected, chapter_details, mcqs, direct_token>>
               ELSE Tab2 /\ UNCHANGED chapter_details
  /\ UNCHANGED <<session, stub>>

\* chapter_details.get(key, default) as the edit form reads it.
Field(d, key, default) == Get(d, key, default).val

\* main, lines 328-421: the chapter arrived; if it is truthy the edit form is
\* shown, and a submitted form calls update_chapter.
Tab1Details ==
  /\ pc = "tab1_details" /\ ~inflight
  /\ IF result.escaped THEN EndRun /\ UNCHANGED forms
     ELSE IF Truthy(result.ret)
     THEN \E chapter_title \in TypedLine(Field(result.ret, "chapter_title", Empty)),
             important_things \in Typed(Join(Field(result.ret, "important_things", PyList(<<>>)))) :
            /\ forms' = forms \cup {<<"edit_chapter", selected.v>>}
            /\ IF ev = <<"edit_chapter", selected.v>>
               THEN /\ Call(update_chapter_request(selected,
                              chapter_data(chapter_title,
                                Field(result.ret, "summary", Empty),
                                important_things,
                                Join(Field(result.ret, "key_learnings", PyList(<<>>))),
                                Join(Field(result.ret, "exercises_activities", PyList(<<>>))),
                                Join(Field(result.ret, "quotes", PyList(<<>>))),
                                Field(result.ret, "chapter_text", Empty)),
                              token), "tab1_update")
                    /\ chapter_details' = result.ret
                    /\ UNCHANGED <<ev, chapters, selected, mcqs, direct_token>>
               ELSE Tab2 /\ chapter_details' = result.ret
     ELSE Tab2 /\ chapter_details' = result.ret /\ UNCHANGED forms
  /\ UNCHANGED <<session, stub>>

\* main, lines 413-419 and 507-513: update_chapter returned.
Tab1Update ==
  /\ pc = "tab1_update" /\ ~inflight
  /\ IF result.escaped THEN EndRun /\ UNCHANGED forms
     ELSE IF Truthy(result.ret.v[1]) THEN Rerun /\ UNCHANGED call
     ELSE Tab2 /\ UNCHANGED <<forms, chapter_details>>
  /\ UNCHANGED <<session, stub>>

\* main, lines 523-558: tab 2's chapter list arrived; the buttons of the
\* selected chapter, then its MCQs are fetched.
Tab2Chapters ==
  /\ pc = "tab2_chapters" /\ ~inflight
  /\ IF result.escaped \/ ~Truthy(result.ret) THEN EndRun /\ UNCHANGED forms
     ELSE \E id \in chapter_ids(result.ret) :
       IF ~Truthy(id) THEN EndRun /\ UNCHANGED forms
       ELSE IF ev = <<"refresh_mcqs", id.v>> THEN Rerun /\ UNCHANGED call
       ELSE /\ forms' = forms \cup {<<"create_test_mcqs", id.v>>, <<"refresh_mcqs", id.v>>}
            /\ chapters' = result.ret /\ selected' = id
            /\ IF ev = <<"create_test_mcqs", id.v>>
               THEN Call(create_test_mcqs_request(id, token), "tab2_create")
               ELSE Call(get_mcqs_for_chapter_request(id, token), "tab2_mcqs")
            /\ UNCHANGED <<ev, chapter_details, mcqs, direct_token>>
  /\ UNCHANGED <<session, stub>>

\* main, lines 546-558: create_test_mcqs returned.
Tab2Create ==
  /\ pc = "tab2_create" /\ ~inflight
  /\ IF result.escaped THEN EndRun /\ UNCHANGED forms
     ELSE IF Truthy(result.ret.v[1]) THEN Rerun /\ UNCHANGED call
     ELSE /\ Call(get_mcqs_for_chapter_request(selected, token), "tab2_mcqs")
          /\ UNCHANGED <<ev, forms, locals>>
  /\ UNCHANGED <<session, stub>>

Placeholder == Lit("Please fill all options first")
\* all(edited_options)
AllFilled(options) == \A j \in 1..Len(options) : Truthy(options[j])
\* What the user may have made of the option inputs.
TypedOptions(options) ==
  {options} \cup
  (IF options = <<>> THEN {}
   ELSE {[options EXCEPT ![1] = Empty], [options EXCEPT ![1] = Lit("c")]})
\* lines 607-610, as a position from 1
correct_answer_index(mcq) ==
  LET options == Lookup(mcq, "options").v
      key == Get(mcq, "correct_answer", Empty).val
  IN IF \E j \in 1..Len(options) : options[j] = key
     THEN CHOOSE j \in 1..Len(options) :
            options[j] = key /\ \A h \in 1..(j - 1) : options[h] # key
     ELSE 1
\* lines 612-617: what the Correct Answer selectbox offers
answer_options(edited_options) ==
  IF AllFilled(edited_options) THEN edited_options ELSE <<Placeholder>>
\* st.selectbox(options=..., index=...): one of the options; None when there is
\* no option to offer (the index is then not looked at).
selectbox(options) ==
  IF options = <<>> THEN {PyNone} ELSE { options[j] : j \in 1..Len(options) }
\* lines 632-637
mcq_data(question, options, correct, explanation) ==
  PyDict(<< <<"question", question>>, <<"options", PyList(options)>>,
            <<"correct_answer", correct>>, <<"explanation", explanation>> >>)
\* f"edit_mcq_{mcq.get('id', i)}"
mcq_key(list, i) == <<"edit_mcq", Get(list.v[i], "id", PyInt(i)).val.v>>

\* main, lines 558-654: the MCQs arrived; one edit form each, and the submitted
\* one, if its input is complete, calls update_mcq.
Tab2Mcqs ==
  /\ pc = "tab2_mcqs" /\ ~inflight
  /\ IF result.escaped \/ ~Truthy(result.ret) THEN EndRun /\ UNCHANGED forms
     ELSE
       /\ forms' = forms \cup { mcq_key(result.ret, i) : i \in 1..Len(result.ret.v) }
       /\ \E i \in 1..Len(result.ret.v) :
          LET mcq == result.ret.v[i] IN
          \E edited_question \in TypedLine(Lookup(mcq, "question")),
             edited_options \in TypedOptions(Lookup(mcq, "options").v) :
          \E correct_answer_option \in selectbox(answer_options(edited_options)) :
            \* an index past the offered options ends the run in an exception
            IF /\ ev = mcq_key(result.ret, i)
               /\ \/ answer_options(edited_options) = <<>>
                  \/ correct_answer_index(mcq) <= Len(answer_options(edited_options))
               /\ Truthy(edited_question) /\ AllFilled(edited_options)
               /\ correct_answer_option # Placeholder
            THEN /\ Call(update_mcq_request(Get(mcq, "id", PyNone).val, selected,
                           mcq_data(edited_question, edited_options,
                                    correct_answer_option,
                                    Get(mcq, "explanation", Empty).val),
                           token), "tab2_update")
                 /\ mcqs' = result.ret
                 /\ UNCHANGED <<ev, chapters, selected, chapter_details, direct_token>>
            ELSE EndRun
  /\ UNCHANGED <<session, stub>>

\* main, lines 639-650: update_mcq returned.
Tab2Update ==
  /\ pc = "tab2_update" /\ ~inflight
  /\ IF ~result.escaped /\ Truthy(result.ret.v[1]) THEN Rerun /\ UNCHANGED call
     ELSE EndRun /\ UNCHANGED forms
  /\ UNCHANGED <<session, stub>>

Next ==
  \/ Interact
  \/ Logout
  \/ TokenInput
  \/ TokenForm
  \/ LoginForm
  \/ LoginReturn
  \/ Respond
  \/ Timeout
  \/ Tab1Chapters
  \/ Tab1Details
  \/ Tab1Update
  \/ Tab2Chapters
  \/ Tab2Create
  \/ Tab2Mcqs
  \/ Tab2Update
  \/ Tab1

Spec == Init /\ [][Next]_vars

\* ---------------------------------------------------------------- stub run
\* The client functions called directly, not through main, against a stub server
\* that keeps each chapter PUT under its URL and echoes it on GET, and records
\* every PUT to /api/mcqs.  A run is one scenario: the chapter round trip
\* (given = <<>>) or the upsert of the MCQ records `given`.
StubPayloads ==
  { Chapter(Lit("t"), <<Lit("a"), Lit("b")>>), Chapter(Empty, <<Lit("b"), Lit("a")>>),
    Chapter(Lit("u"), <<>>) }
StubIds == {IdStep, IdStep * MaxChapterIx}
StubGiven ==
  UNION { [1..n -> {Mcq1, Mcq2}] : n \in 1..MaxGiven }

HasItem(items, key) == \E i \in 1..Len(items) : items[i][1] = key
ItemOf(items, key) == items[CHOOSE i \in 1..Len(items) : items[i][1] = key][2]
UpdatesSent == SelectSeq(sent, LAMBDA r : r.op = "update_mcq")

StubInit ==
  /\ token = Lit("T") /\ username = Lit("A") /\ user_role = Lit("Admin")
  /\ pc = "stub" /\ inflight = FALSE /\ ev = NoEvent /\ forms = {}
  /\ chapters = PyNone /\ selected = PyNone /\ chapter_details = PyNone /\ mcqs = PyNone
  /\ direct_token = PyNone
  /\ req = NoRequest /\ resp = NoResponse /\ result = NoOutcome /\ nreq = 0
  /\ store = <<>> /\ sent = <<>> /\ arg = <<0, PyNone>> /\ upserted = <<>>
  /\ given \in StubGiven \cup {<<>>}

StubUpdateChapter ==
  /\ pc = "stub" /\ ~inflight /\ given = <<>>
  /\ \E c \in StubIds, payload \in StubPayloads :
       /\ Call(update_chapter_request(PyInt(c), payload, token), "stub")
       /\ arg' = <<c, payload>>
  /\ UNCHANGED <<session, ev, forms, locals, store, sent, given, upserted>>

StubGetChapter ==
  /\ pc = "stub" /\ ~inflight /\ given = <<>>
  /\ \E c \in StubIds :
       /\ Call(get_chapter_details_request(PyInt(c), token), "stub")
       /\ arg' = <<c, PyNone>>
  /\ UNCHANGED <<session, ev, forms, locals, store, sent, given, upserted>>

\* The next record of `given` goes to update_mcq, as the MCQ form passes one:
\* mcq.get('id') and the record's fields.
StubUpdateMcq ==
  /\ pc = "stub" /\ ~inflight /\ Len(UpdatesSent) < Len(given)
  /\ LET mcq == given[Len(UpdatesSent) + 1] IN
       /\ Call(update_mcq_request(Get(mcq, "id", PyNone).val, PyInt(IdStep), mcq, token),
               "stub")
       /\ arg' = <<IdStep, mcq>>
  /\ UNCHANGED <<session, ev, forms, locals, store, sent, given, upserted>>

StubCreateTestMcqs ==
  /\ pc = "stub" /\ ~inflight /\ given # <<>>
  /\ \A i \in 1..Len(sent) : sent[i].op # "create_test_mcqs"
  /\ Call(create_test_mcqs_request(PyInt(IdStep), token), "stub")
  /\ arg' = <<IdStep, PyNone>>
  /\ UNCHANGED <<session, ev, forms, locals, store, sent, given, upserted>>

Saved == Http(200, dumps(Envelope(PyBool(TRUE), Lit("saved"), Absent)))
Refused == Http(500, dumps(Envelope(PyBool(FALSE), Lit("refused"), Absent)))
NotFound == Http(404, dumps(Envelope(PyBool(FALSE), Lit("not found"), Absent)))

\* The stub answers: a PUT is kept (or, for a chapter, refused and not kept), a
\* GET of a kept chapter is answered with the kept body parsed and serialised
\* again as the envelope's data.
StubServe ==
  /\ pc = "stub" /\ inflight
  /\ \E r \in
       IF req.op = "update_chapter" THEN {Saved, Refused}
       ELSE IF req.op = "get_chapter_details"
       THEN IF HasItem(store, req.url)
            THEN {Http(200, dumps(Envelope(PyBool(TRUE), Absent,
                                           loads(ItemOf(store, req.url)).val)))}
            ELSE {NotFound}
       ELSE {Saved} :
       /\ resp' = r
       /\ result' = Handle(req.op, r)
       /\ store' = IF req.op = "update_chapter" /\ r = Saved
                   THEN PutItem(store, req.url, req.json) ELSE store
       /\ upserted' = IF req.op = "update_chapter" /\ Truthy(Handle(req.op, r).ret.v[1])
                      THEN PutItem(upserted, arg[1], arg[2]) ELSE upserted
  /\ sent' = IF req.op \in {"update_mcq", "create_test_mcqs"}
             THEN Append(sent, [op |-> req.op, url |-> req.url, json |-> req.json])
             ELSE sent
  /\ inflight' = FALSE
  /\ UNCHANGED <<session, pc, ev, forms, locals, req, nreq, given, arg>>

StubNext ==
  \/ StubUpdateChapter
  \/ StubGetChapter
  \/ StubUpdateMcq
  \/ StubCreateTestMcqs
  \/ StubServe

StubSpec == StubInit /\ [][StubNext]_vars

\* ----------------------------------------------------------------- claims
\* What the last answer held, read off the wire.
RespJson == loads(resp.text)
RespIsObject == resp.kind = "http" /\ ~RespJson.exc /\ RespJson.val.k = "dict"
RespHas(key) == RespIsObject /\ HasKey(RespJson.val, key)
RespField(key) == Lookup(RespJson.val, key)
RespSucceeded == RespHas("succeeded") /\ RespField("succeeded") = PyBool(TRUE)
\* Operation op was called and has returned.
Done(op) == req.op = op /\ ~inflight /\ resp.kind # "none"

LoginDataComplete ==
  /\ RespHas("data") /\ RespField("data").k = "dict"
  /\ \A key \in {"token", "username", "user_role"} : HasKey(RespField("data"), key)
EchoedSession ==
  <<Lookup(RespField("data"), "token"), Lookup(RespField("data"), "username"),
    Lookup(RespField("data"), "user_role")>>

\* C1: when the server answers a login with HTTP 200, succeeded=true and
\* data={token, username, user_role}, login_user returns exactly that triple, and
\* the session the login form builds from it (the state after its st.rerun) holds
\* the same three values.
C1_LoginEchoesSession ==
  (Done("login_user") /\ resp.status = 200 /\ RespSucceeded /\ LoginDataComplete)
    => /\ result = Returned(PyTuple(EchoedSession), <<>>)
       /\ (pc = "main" => <<token, username, user_role>> = EchoedSession)
C1_SessionBuilt ==
  /\ Done("login_user") /\ pc = "main" /\ resp.status = 200 /\ RespSucceeded
  /\ token = Lit("T") /\ username = Lit("A") /\ user_role = Lit("Admin")

LoginFailed ==
  /\ Done("login_user")
  /\ (resp.kind # "http" \/ resp.status # 200 \/ ~RespIsObject \/ ~RespSucceeded)

\* C2, as claimed: on a 401 (any non-200 status, succeeded=false, malformed
\* JSON, a network failure) login_user does not throw and the failure result it
\* returns carries a non-empty reason string.
C2_FailureResultCarriesReason ==
  LoginFailed =>
    /\ ~result.escaped
    /\ \E i \in 1..Len(result.ret.v) :
         result.ret.v[i].k = "str" /\ result.ret.v[i].v # <<>>

\* C2, amended: on those outcomes login_user does not throw, returns
\* (None, None, None), and has shown one non-empty reason through st.error; the
\* value it returns carries no reason.
C2_FailureShowsReason ==
  LoginFailed =>
    /\ ~result.escaped
    /\ result.ret = NoSession
    /\ Len(result.errors) = 1 /\ result.errors[1] # <<>>
C2_Unauthorized ==
  /\ Done("login_user") /\ resp.status = 401
  /\ result = Returned(NoSession, <<S("Login failed with status ") \o <<"4", "0", "1">> >>)

\* The outcomes C3 lists: a transport failure or timeout, a body that is no
\* JSON, a JSON text that is no object, a succeeded=true envelope without data
\* and message.
ListedOutcome ==
  /\ req.op # "none" /\ ~inflight /\ resp.kind # "none"
  /\ \/ resp.kind \in {"error", "timeout"}
     \/ ~RespIsObject
     \/ RespSucceeded /\ ~RespHas("data") /\ ~RespHas("message")
\* The value an operation returns on failure.
IsFailure(op, ret) ==
  CASE op = "login_user" -> ret = NoSession
    [] op \in {"get_all_chapters", "get_mcqs_for_chapter"} -> ret = PyList(<<>>)
    [] op = "get_chapter_details" -> ret = PyNone
    [] OTHER -> ret.k = "tuple" /\ ret.v[1] = PyBool(FALSE)
ReadsNoKey == req.op \in {"create_test_mcqs", "update_mcq"}

\* C3, as claimed: on every listed outcome every operation returns its failure
\* value and no exception leaves it.
C3_EveryListedOutcomeFails ==
  ListedOutcome => ~result.escaped /\ IsFailure(req.op, result.ret)

\* C3, amended: on every listed outcome no exception leaves the operation, and
\* it returns its failure value, except that create_test_mcqs and update_mcq,
\* which read neither data nor message, return success for an HTTP 200
\* succeeded=true envelope that lacks both.
C3_ListedOutcomeFailsUnlessNoKeyRead ==
  ListedOutcome =>
    /\ ~result.escaped
    /\ IF ReadsNoKey /\ resp.status = 200 /\ RespSucceeded
       THEN result.ret.k = "tuple" /\ result.ret.v[1] = PyBool(TRUE)
       ELSE IsFailure(req.op, result.ret)
C3_MissingMessageCaught ==
  /\ Done("update_chapter") /\ ListedOutcome /\ resp.status = 200 /\ RespSucceeded
  /\ result = Returned(Result(FALSE, S("Error: ") \o <<"'", "message", "'">>), <<>>)

\* C4, as claimed: update_chapter reports success if and only if the status is
\* 200 or 201 and the envelope has succeeded=true.
C4_SuccessIffStatusAndSucceeded ==
  (Done("update_chapter") /\ resp.kind = "http") =>
    (result.ret.v[1] = PyBool(TRUE) <=> (resp.status \in {200, 201} /\ RespSucceeded))

\* C4, amended: update_chapter reports success, (True, the server's message), if
\* and only if the status is 200 or 201 and the envelope has succeeded=true and a
\* message; in every other case it reports (False, message) with a non-empty
\* message.
C4_SuccessIffStatusSucceededAndMessage ==
  Done("update_chapter") =>
    /\ ~result.escaped
    /\ IF resp.status \in {200, 201} /\ RespSucceeded /\ RespHas("message")
       THEN result.ret = PyTuple(<<PyBool(TRUE), RespField("message")>>)
       ELSE /\ result.ret.v[1] = PyBool(FALSE)
            /\ result.ret.v[2].k = "str" /\ result.ret.v[2].v # <<>>
C4_Created ==
  /\ Done("update_chapter") /\ resp.status = 201
  /\ result.ret = PyTuple(<<PyBool(TRUE), Lit("m")>>)

\* C5: get_all_chapters returns the server's data when the answer is HTTP 200
\* with succeeded=true (and signals no error then, an empty list included), and
\* the empty list on every other outcome, a succeeded=true envelope without data
\* among them.
C5_ChaptersOrEmpty ==
  Done("get_all_chapters") =>
    /\ ~result.escaped
    /\ IF resp.status = 200 /\ RespSucceeded /\ RespHas("data")
       THEN result = Returned(RespField("data"), <<>>)
       ELSE result.ret = PyList(<<>>)
C5_EmptyListIsNoFailure ==
  /\ Done("get_all_chapters") /\ resp.status = 200 /\ RespSucceeded /\ RespHas("data")
  /\ RespField("data") = PyList(<<>>)
  /\ result = Returned(PyList(<<>>), <<>>)

\* C6: get_chapter_details returns the envelope's data only for HTTP 200 with
\* succeeded=true and None on every other outcome; a script run renders the
\* edit form, and calls update_chapter from it, only after its
\* get_chapter_details returned a chapter that is not None.
C6_DetailsOrNone ==
  /\ Done("get_chapter_details") =>
       /\ ~result.escaped
       /\ IF resp.status = 200 /\ RespSucceeded /\ RespHas("data")
          THEN result.ret = RespField("data")
          ELSE result.ret = PyNone
  /\ (pc # "idle" /\ \E f \in forms : f[1] = "edit_chapter") => chapter_details # PyNone
  /\ (pc = "tab1_update" /\ <<"create_chapter", 0>> \notin forms) =>
       chapter_details # PyNone
C6_EditSubmitted ==
  /\ pc = "tab1_update" /\ inflight /\ req.op = "update_chapter"
  /\ <<"edit_chapter", IdStep>> \in forms
  /\ chapter_details = Chapter(Lit("t"), <<Lit("a"), Lit("b")>>)

\* C9, as claimed: every request a client operation has out carries a timeout,
\* so an unanswered request ends in the failure result.
C9_EveryRequestHasTimeout ==
  inflight => req.timeout # PyNone

\* C10: a call of a client operation issues one HTTP request, whatever the
\* outcome; a failed call is not issued again.
C10_OneRequestPerCall ==
  req.op # "none" => nreq = 1
C10_FailedOnce ==
  /\ Done("update_chapter") /\ pc = "tab1_update" /\ resp.kind = "error"
  /\ result.ret.v[1] = PyBool(FALSE) /\ nreq = 1

\* C7: against the stub that keeps the PUT body under the chapter's URL and
\* echoes it, get_chapter_details of a chapter returns the payload of the last
\* update_chapter that reported success for it, field for field.
C7_RoundTrip ==
  (pc = "stub" /\ Done("get_chapter_details") /\ HasItem(upserted, arg[1])) =>
    result = Returned(ItemOf(upserted, arg[1]), <<>>)
C7_TwoChaptersRead ==
  /\ pc = "stub" /\ Done("get_chapter_details") /\ Len(upserted) = 2
  /\ HasItem(upserted, arg[1])
  /\ ItemOf(upserted, arg[1]) = Chapter(Empty, <<Lit("b"), Lit("a")>>)
  /\ result.ret = Chapter(Empty, <<Lit("b"), Lit("a")>>)

\* The records of the i-th PUT to /api/mcqs the stub received.
SentRecords(r) ==
  LET body == loads(r.json) IN
    IF ~body.exc /\ body.val.k = "list" THEN body.val.v ELSE <<>>
\* Record rec is MCQ mcq as update_mcq sends it: its id (null without one) and
\* its fields.
Carries(rec, mcq) ==
  /\ rec.k = "dict"
  /\ \A key \in {"id", "question", "options", "correct_answer"} : HasKey(rec, key)
  /\ Lookup(rec, "id") = (IF HasKey(mcq, "id") THEN Lookup(mcq, "id") ELSE PyNone)
  /\ \A key \in {"question", "options", "correct_answer"} :
       Lookup(rec, key) = Lookup(mcq, key)
AllUpserted == pc = "stub" /\ ~inflight /\ given # <<>> /\ Len(UpdatesSent) = Len(given)
Mixed ==
  /\ \E i \in 1..Len(given) : ~HasKey(given[i], "id")
  /\ \E i \in 1..Len(given) : HasKey(given[i], "id")

\* C8, as claimed: given a sequence with a record without id and a record with
\* one, the MCQ upsert sends all of it in a single PUT body, in the order given.
C8_OneRequestForTheSequence ==
  (AllUpserted /\ Mixed) =>
    /\ Len(UpdatesSent) = 1
    /\ Len(SentRecords(UpdatesSent[1])) = Len(given)
    /\ \A i \in 1..Len(given) : Carries(SentRecords(UpdatesSent[1])[i], given[i])

\* C8, amended: update_mcq takes one record and sends exactly it, with its id
\* (null when it has none), as a one-element list in one PUT to
\* /api/mcqs/{chapter_id}; a sequence goes out as one request per record, in the
\* order given.  create_test_mcqs alone sends two records in one body: its two
\* samples, in their listed order, neither with an id.
C8_OneRecordPerRequest ==
  /\ \A i \in 1..Len(UpdatesSent) :
       /\ UpdatesSent[i].url = API_BASE_URL \o S("/api/mcqs/") \o FormatInt(IdStep)
       /\ Len(SentRecords(UpdatesSent[i])) = 1
       /\ Carries(SentRecords(UpdatesSent[i])[1], given[i])
  /\ \A i \in 1..Len(sent) :
       sent[i].op = "create_test_mcqs" =>
         /\ Len(SentRecords(sent[i])) = 2
         /\ PyList(SentRecords(sent[i])) = test_mcqs(PyInt(IdStep))
         /\ \A j \in 1..2 : ~HasKey(SentRecords(sent[i])[j], "id")
C8_BothSent ==
  /\ AllUpserted /\ given = <<Mcq2, Mcq1>>
  /\ Lookup(SentRecords(UpdatesSent[1])[1], "id") = PyNone
  /\ Lookup(SentRecords(UpdatesSent[2])[1], "id") = PyInt(5)

\* The two session states.
SessionAbsent == token = PyNone /\ username = PyNone /\ user_role = PyNone
SessionActive == token.k = "str" /\ token.v # <<>>
\* The steps that make a session: the login form takes the triple of a login
\* the server accepted; the token form takes the typed token.
LoginSucceeded ==
  /\ pc = "login" /\ Done("login_user") /\ resp.status = 200 /\ RespSucceeded
  /\ <<token', username', user_role'>> = result.ret.v
DirectTokenEntered ==
  /\ pc = "token_form" /\ ev = <<"token_form", 0>>
  /\ username' = Lit("Direct Access") /\ user_role' = Lit("Admin")
LogoutPressed == pc = "main" /\ ev = <<"logout", 0>> /\ SessionActive

\* C11: the session starts ABSENT (token, username and user_role None); in every
\* reachable state it is ABSENT or ACTIVE (the token a non-empty string); it
\* turns from ABSENT to ACTIVE only in a step of a successful login or of a
\* direct-token entry; and the step a logout takes from ACTIVE ends in ABSENT.
C11_SessionLifecycle ==
  /\ SessionAbsent
  /\ [](SessionAbsent \/ SessionActive)
  /\ [][(SessionAbsent /\ SessionActive') => (LoginSucceeded \/ DirectTokenEntered)]_vars
  /\ [][LogoutPressed => SessionAbsent']_vars
C11_LogoutPending ==
  /\ LogoutPressed /\ token = Lit("T") /\ username = Lit("A") /\ user_role = Lit("Admin")

\* The token form was submitted and the run stands at its test (line 271).
TokenSubmitted == pc = "token_form" /\ ev = <<"token_form", 0>>

\* C12: the step the token form takes on a submitted non-empty token makes the
\* session that exact token with username "Direct Access" and role "Admin"; on
\* a submitted empty token it leaves the session ABSENT; in neither case is a
\* request issued, and a session with the placeholder identity has no login
\* request behind it.
C12_DirectToken ==
  /\ [][TokenSubmitted =>
          /\ IF direct_token.k = "str" /\ direct_token.v # <<>>
             THEN <<token', username', user_role'>>
                    = <<direct_token, Lit("Direct Access"), Lit("Admin")>>
             ELSE SessionAbsent'
          /\ req' = req /\ nreq' = nreq /\ ~inflight']_vars
  /\ [](username = Lit("Direct Access") => req.op # "login_user")
C12_DirectSession ==
  /\ pc = "main" /\ req = NoRequest
  /\ <<token, username, user_role>> = <<Lit("D"), Lit("Direct Access"), Lit("Admin")>>

\* C13: every request other than the login (the GETs and PUTs on
\* /api/all-chapters, /api/syllabus/{id}, /api/mcqs/{id}) is made while the
\* session is ACTIVE and carries Authorization: Bearer <the session's token>;
\* so none is made while the session is ABSENT, after a logout in particular.
C13_BearerOfSession ==
  req.op \notin {"none", "login_user"} =>
    /\ SessionActive
    /\ req.auth = PyStr(<<"Bearer ">> \o token.v)
    /\ req.method \in {"GET", "PUT"}
C13_AuthorizedUpdate ==
  /\ inflight /\ req.op = "update_mcq" /\ token = Lit("D")
  /\ req.auth = PyStr(<<"Bearer ", "D">>)

\* The MCQ records of the PUT to /api/mcqs that `req` is.
RequestRecords ==
  LET body == loads(req.json) IN
    IF req.op \in {"update_mcq", "create_test_mcqs"} /\ ~body.exc /\ body.val.k = "list"
    THEN body.val.v ELSE <<>>
\* Record rec has options, all non-empty, and its correct_answer is one of them.
AnswerAmongOptions(rec) ==
  /\ rec.k = "dict" /\ HasKey(rec, "options") /\ HasKey(rec, "correct_answer")
  /\ Lookup(rec, "options").k = "list"
  /\ \A j \in 1..Len(Lookup(rec, "options").v) : Truthy(Lookup(rec, "options").v[j])
  /\ \E j \in 1..Len(Lookup(rec, "options").v) :
       Lookup(rec, "options").v[j] = Lookup(rec, "correct_answer")

\* C14, as claimed: every MCQ record the application PUTs to
\* /api/mcqs/{chapter_id}, from the MCQ edit form through update_mcq and from
\* create_test_mcqs, has all its options non-empty and a correct_answer that is
\* one of them.
C14_SubmittedAnswerAmongOptions ==
  \A i \in 1..Len(RequestRecords) : AnswerAmongOptions(RequestRecords[i])

\* A read or write operation is the last call made.
ReadOrWrite == req.op \notin {"none", "login_user"}

\* C15: the step in which a read or write operation returns changes neither the
\* session nor main's locals, the page or the place the run stands at; no step
\* of a run that follows such a call, a failed one (401, 403, 404) included,
\* changes the session; and what get_all_chapters returns is a function of the
\* answer to its own request alone.
C15_CallsLeaveStateAlone ==
  /\ [][(ReadOrWrite /\ inflight /\ ~inflight') =>
          /\ <<token', username', user_role'>> = <<token, username, user_role>>
          /\ <<chapters', selected', chapter_details', mcqs', direct_token'>>
               = <<chapters, selected, chapter_details, mcqs, direct_token>>
          /\ <<pc', ev', forms'>> = <<pc, ev, forms>>]_vars
  /\ [][ReadOrWrite =>
          <<token', username', user_role'>> = <<token, username, user_role>>]_vars
  /\ [](ReadOrWrite => SessionActive)
  /\ [](Done("get_all_chapters") =>
          result.ret = IF resp.status = 200 /\ RespSucceeded /\ RespHas("data")
                       THEN RespField("data") ELSE PyList(<<>>))
C15_ExpiredTokenKept ==
  /\ Done("get_all_chapters") /\ pc = "tab2_chapters" /\ resp.status = 401
  /\ result.ret = PyList(<<>>)
  /\ <<token, username, user_role>> = <<Lit("T"), Lit("A"), Lit("Admin")>>

\* The credentials a login request carries.
Credentials == loads(req.json)
NonEmptyString(x) == x.k = "str" /\ x.v # <<>>
\* login_user has returned a non-empty token.
TokenReturned ==
  /\ pc = "login" /\ Done("login_user") /\ ~result.escaped
  /\ result.ret.k = "tuple" /\ NonEmptyString(result.ret.v[1])

\* C16: a login request is only ever made with a non-empty email and a
\* non-empty password (a submission with either empty makes none); the login
\* page is shown with the session ABSENT, and the only step there that changes
\* the session is the one taking a non-empty token login_user returned, so an
\* attempt ending in empty fields, a non-200 status, succeeded=false, an
\* exception or a success envelope with an empty or null token leaves token,
\* username and user_role as they were.
C16_FailedLoginLeavesAbsent ==
  /\ [](req.op = "login_user" =>
          /\ req.url = API_BASE_URL \o S("/api/login")
          /\ ~Credentials.exc /\ Credentials.val.k = "dict"
          /\ \A key \in {"email", "password"} :
               HasKey(Credentials.val, key) /\ NonEmptyString(Lookup(Credentials.val, key)))
  /\ [](pc \in {"token_form", "login_form", "login"} => SessionAbsent)
  /\ [][(pc \in {"login_form", "login"}) =>
          \/ <<token', username', user_role'>> = <<token, username, user_role>>
          \/ TokenReturned /\ result.ret.v = <<token', username', user_role'>>]_vars
C16_EmptyTokenReturned ==
  /\ pc = "login" /\ Done("login_user") /\ resp.status = 200 /\ RespSucceeded
  /\ result.ret = PyTuple(<<Empty, Lit("A"), Lit("Admin")>>)
  /\ SessionAbsent

\* The create-new-chapter form is on the page.
CreateFormShown == <<"create_chapter", 0>> \in forms
\* The chapter payload of the update_chapter request that `req` is.
ChapterSent == loads(req.json)
ChapterUrl(id) == API_BASE_URL \o S("/api/syllabus/") \o FormatInt(id)

\* C17: the step that follows tab 1's get_all_chapters renders the create form
\* exactly when the returned list is empty, which it is when the server has no
\* chapters and when the fetch failed; an update_chapter call made with a
\* non-empty list goes to the id of one of the list's chapters, and one made
\* from the create form carries a non-empty title (a submission without a
\* title makes no request).
C17_CreateFormIffEmptyList ==
  /\ [][(pc = "tab1_chapters" /\ ~inflight) =>
          /\ CreateFormShown' <=> result.ret = PyList(<<>>)
          /\ resp.kind = "error" => CreateFormShown'
          /\ (resp.status = 200 /\ RespSucceeded /\ RespHas("data")
                /\ RespField("data") = PyList(<<>>)) => CreateFormShown']_vars
  /\ [](pc = "tab1_update" =>
          /\ req.op = "update_chapter"
          /\ IF CreateFormShown
             THEN /\ chapters = PyList(<<>>)
                  /\ ~ChapterSent.exc /\ ChapterSent.val.k = "dict"
                  /\ HasKey(ChapterSent.val, "chapter_title")
                  /\ NonEmptyString(Lookup(ChapterSent.val, "chapter_title"))
             ELSE /\ chapters.k = "list" /\ chapters.v # <<>>
                  /\ \E i \in 1..Len(chapters.v) :
                       /\ Lookup(chapters.v[i], "chapter_id") = selected
                       /\ req.url = ChapterUrl(selected.v))
C17_CreateSubmitted ==
  /\ pc = "tab1_update" /\ inflight /\ CreateFormShown /\ chapters = PyList(<<>>)
  /\ req.url = ChapterUrl(IdStep)

====
